---- MODULE Spec2Model ----
(***************************************************************************)
(* Flow-control frame manager of neqo-transport (flow_mgr.rs): FlowMgr,    *)
(* its Iterator implementation, FlowControlGenerator::generate and the     *)
(* acked/lost callbacks of FlowControlGeneratorToken.                      *)
(***************************************************************************)
EXTENDS Integers, FiniteSets, Sequences, Bags, TLC

VARIABLES
    from_conn,          \* HashMap<Discriminant, Frame>, as a set of entries
    from_streams,       \* HashMap<(StreamId, Discriminant), Frame>
    from_stream_types,  \* HashMap<(StreamType, Discriminant), Frame>
    keys_first,         \* what keys().next() yields for each of the three maps
    used_data,          \* u64
    max_data,           \* u64
    need_close_frame,   \* bool
    panicked,           \* the assert! of conn_increase_credit_used has fired
    tokens,             \* in-flight packet slot -> Option<FlowControlGeneratorToken>
    send_streams,       \* conn.send_streams: tracked stream id -> send stream
    recv_streams,       \* conn.recv_streams: tracked stream id -> receive stream
    indexes             \* conn.indexes: the stream indexes of the connection

mgr_vars == <<from_conn, from_streams, from_stream_types, keys_first>>
credit_vars == <<used_data, max_data>>
conn_vars == <<send_streams, recv_streams, indexes>>
vars == <<from_conn, from_streams, from_stream_types, keys_first, used_data, max_data,
          need_close_frame, panicked, tokens, send_streams, recv_streams, indexes>>

---------------------------------------------------------------------------
(* Bounds of the model. *)

\* Largest value of the narrowed unsigned integer that stands for u64.
MaxU64 == 3
\* Frames alive at once, queued or carried by a token, while an external
\* caller may still queue one more (the maps are unbounded).
MaxFrames == 2
\* Tokens in flight at once.
MaxTokens == 1
\* Largest `remaining` packet budget offered to generate.
MaxRemaining == 9

U64 == 0..MaxU64
U64Modulus == MaxU64 + 1

StreamIds == {0, 4}
StreamTypes == {"BiDi", "UniDi"}
AppErrors == {7, 8}
FinalSizes == {100}
PathData == {1, 2}
\* The limit external callers announce; the token callbacks announce the
\* limits the connection of InitConn holds, 10 and 20.
InitialLimits == {10}

---------------------------------------------------------------------------
(* Frames (crate::frame::Frame, the variants this file builds). *)

DataBlocked(data_limit) == [kind |-> "DataBlocked", data_limit |-> data_limit]
PathResponse(data) == [kind |-> "PathResponse", data |-> data]
ResetStream(stream_id, application_error_code, final_size) ==
    [kind |-> "ResetStream", stream_id |-> stream_id,
     application_error_code |-> application_error_code, final_size |-> final_size]
StopSending(stream_id, application_error_code) ==
    [kind |-> "StopSending", stream_id |-> stream_id,
     application_error_code |-> application_error_code]
MaxStreamData(stream_id, maximum_stream_data) ==
    [kind |-> "MaxStreamData", stream_id |-> stream_id,
     maximum_stream_data |-> maximum_stream_data]
StreamDataBlocked(stream_id, stream_data_limit) ==
    [kind |-> "StreamDataBlocked", stream_id |-> stream_id,
     stream_data_limit |-> stream_data_limit]
MaxStreams(stream_type, maximum_streams) ==
    [kind |-> "MaxStreams", stream_type |-> stream_type,
     maximum_streams |-> maximum_streams]
StreamsBlocked(stream_type, stream_limit) ==
    [kind |-> "StreamsBlocked", stream_type |-> stream_type,
     stream_limit |-> stream_limit]

\* mem::discriminant(&frame): the variant, whatever the field values.
Discriminant(frame) == frame.kind

ConnKinds == {"DataBlocked", "PathResponse"}
StreamKinds == {"ResetStream", "StopSending", "MaxStreamData", "StreamDataBlocked"}
StreamTypeKinds == {"MaxStreams", "StreamsBlocked"}

\* Encoded size of a QUIC variable-length integer.
VarintLen(v) == IF v < 64 THEN 1 ELSE IF v < 16384 THEN 2 ELSE IF v < 1073741824 THEN 4 ELSE 8

\* d.len() after frame.marshal(&mut d): a type byte, then the fields.
MarshalLen(frame) ==
    CASE frame.kind = "DataBlocked" -> 1 + VarintLen(frame.data_limit)
      [] frame.kind = "PathResponse" -> 1 + 8
      [] frame.kind = "ResetStream" ->
            1 + VarintLen(frame.stream_id) + VarintLen(frame.application_error_code)
              + VarintLen(frame.final_size)
      [] frame.kind = "StopSending" ->
            1 + VarintLen(frame.stream_id) + VarintLen(frame.application_error_code)
      [] frame.kind = "MaxStreamData" ->
            1 + VarintLen(frame.stream_id) + VarintLen(frame.maximum_stream_data)
      [] frame.kind = "StreamDataBlocked" ->
            1 + VarintLen(frame.stream_id) + VarintLen(frame.stream_data_limit)
      [] frame.kind = "MaxStreams" -> 1 + VarintLen(frame.maximum_streams)
      [] frame.kind = "StreamsBlocked" -> 1 + VarintLen(frame.stream_limit)

---------------------------------------------------------------------------
(* HashMap, as the set of its (key, value) entries. *)

Keys(map) == {e.key : e \in map}

\* HashMap::get / the value stored under key (key is in the map).
Get(map, key) == (CHOOSE e \in map : e.key = key).frame

\* An insert that keeps the entry already stored under key beside the new one.
InsertKeepingOld(map, key, frame) == map \cup {[key |-> key, frame |-> frame]}

\* HashMap::insert: the entry under key, if any, is replaced.
Insert(map, key, frame) ==
    {e \in map : e.key # key} \cup {[key |-> key, frame |-> frame]}

\* A remove that leaves the entry in the map.
RemoveKeepsEntry(map, key) == map

\* HashMap::remove.
Remove(map, key) == {e \in map : e.key # key}

\* keys().next() of a map: None ({}) when empty, else Some(key) ({key}).  The
\* iteration order of a HashMap is arbitrary; it is fixed as long as the map is
\* not mutated, and any key may come first after a mutation.
FirstKeyChoices(map) == IF map = {} THEN {{}} ELSE {{k} : k \in Keys(map)}

QueuedCount == Cardinality(from_conn) + Cardinality(from_streams)
                 + Cardinality(from_stream_types)

---------------------------------------------------------------------------
(* FlowMgr: insertion into each of the three maps. *)

InsertConn(frame) ==
    /\ from_conn' = Insert(from_conn, Discriminant(frame), frame)
    /\ \E f \in FirstKeyChoices(from_conn') : keys_first' = [keys_first EXCEPT !.conn = f]
    /\ UNCHANGED <<from_streams, from_stream_types>>

InsertStream(stream_id, frame) ==
    /\ from_streams' = Insert(from_streams, <<stream_id, Discriminant(frame)>>, frame)
    /\ \E f \in FirstKeyChoices(from_streams') :
            keys_first' = [keys_first EXCEPT !.streams = f]
    /\ UNCHANGED <<from_conn, from_stream_types>>

InsertStreamType(stream_type, frame) ==
    /\ from_stream_types' =
            Insert(from_stream_types, <<stream_type, Discriminant(frame)>>, frame)
    /\ \E f \in FirstKeyChoices(from_stream_types') :
            keys_first' = [keys_first EXCEPT !.types = f]
    /\ UNCHANGED <<from_conn, from_streams>>

(* FlowMgr: the emit methods. *)

data_blocked == InsertConn(DataBlocked(max_data))

path_response(data) == InsertConn(PathResponse(data))

stream_reset(stream_id, application_error_code, final_size) ==
    InsertStream(stream_id, ResetStream(stream_id, application_error_code, final_size))

stop_sending(stream_id, application_error_code) ==
    InsertStream(stream_id, StopSending(stream_id, application_error_code))

max_stream_data(stream_id, maximum_stream_data) ==
    InsertStream(stream_id, MaxStreamData(stream_id, maximum_stream_data))

stream_data_blocked(stream_id, stream_data_limit) ==
    InsertStream(stream_id, StreamDataBlocked(stream_id, stream_data_limit))

max_streams(stream_limit, stream_type) ==
    InsertStreamType(stream_type, MaxStreams(stream_type, stream_limit))

streams_blocked(stream_limit, stream_type) ==
    InsertStreamType(stream_type, StreamsBlocked(stream_type, stream_limit))

(* FlowMgr: credit accounting. *)

conn_credit_avail == max_data - used_data

\* The addition without the assert!.
conn_increase_credit_used_unchecked(amount) ==
    /\ used_data' = (used_data + amount) % U64Modulus
    /\ UNCHANGED panicked

\* self.used_data += amount; assert!(self.used_data <= self.max_data).
\* A sum past the integer's width panics in a build with overflow checks and
\* wraps in a build without them; the assert then sees the wrapped value.
conn_increase_credit_used(amount) ==
    LET sum == used_data + amount IN
    IF sum > MaxU64
    THEN \/ panicked' = TRUE /\ UNCHANGED used_data
         \/ /\ used_data' = sum % U64Modulus
            /\ panicked' = ~(used_data' <= max_data)
    ELSE /\ used_data' = sum
         /\ panicked' = ~(used_data' <= max_data)

Max(a, b) == IF a >= b THEN a ELSE b

\* The new limit stored whatever the old one.
conn_increase_max_credit_overwrite(new) == max_data' = new

conn_increase_max_credit(new) == max_data' = Max(max_data, new)

\* A peek that looks at the per-stream map before the connection map.
peek_streams_first ==
    IF keys_first.streams # {}
    THEN {Get(from_streams, key) : key \in keys_first.streams}
    ELSE IF keys_first.conn # {}
    THEN {Get(from_conn, key) : key \in keys_first.conn}
    ELSE IF keys_first.types # {}
    THEN {Get(from_stream_types, key) : key \in keys_first.types}
    ELSE {}

(* FlowMgr::peek, as Option<Frame>: {} is None, {frame} is Some(frame). *)
peek ==
    IF keys_first.conn # {}
    THEN {Get(from_conn, key) : key \in keys_first.conn}
    ELSE IF keys_first.streams # {}
    THEN {Get(from_streams, key) : key \in keys_first.streams}
    ELSE IF keys_first.types # {}
    THEN {Get(from_stream_types, key) : key \in keys_first.types}
    ELSE {}

set_need_close_frame(new) == need_close_frame' = new

(* <FlowMgr as Iterator>::next.  next_frame is the Option<Frame> it       *)
(* returns (the value HashMap::remove hands back), next the removal.        *)
next_frame ==
    IF keys_first.conn # {}
    THEN {Get(from_conn, key) : key \in keys_first.conn}
    ELSE IF keys_first.streams # {}
    THEN {Get(from_streams, key) : key \in keys_first.streams}
    ELSE IF keys_first.types # {}
    THEN {Get(from_stream_types, key) : key \in keys_first.types}
    ELSE {}

\* A next() that removes some entry of the map, not the one keys().next() named.
next_any_key ==
    IF from_conn # {}
    THEN \E key \in Keys(from_conn) :
            /\ from_conn' = Remove(from_conn, key)
            /\ \E f \in FirstKeyChoices(from_conn') :
                    keys_first' = [keys_first EXCEPT !.conn = f]
            /\ UNCHANGED <<from_streams, from_stream_types>>
    ELSE IF from_streams # {}
    THEN \E key \in Keys(from_streams) :
            /\ from_streams' = Remove(from_streams, key)
            /\ \E f \in FirstKeyChoices(from_streams') :
                    keys_first' = [keys_first EXCEPT !.streams = f]
            /\ UNCHANGED <<from_conn, from_stream_types>>
    ELSE IF from_stream_types # {}
    THEN \E key \in Keys(from_stream_types) :
            /\ from_stream_types' = Remove(from_stream_types, key)
            /\ \E f \in FirstKeyChoices(from_stream_types') :
                    keys_first' = [keys_first EXCEPT !.types = f]
            /\ UNCHANGED <<from_conn, from_streams>>
    ELSE UNCHANGED mgr_vars

next ==
    IF keys_first.conn # {}
    THEN \E key \in keys_first.conn :
            /\ from_conn' = Remove(from_conn, key)
            /\ \E f \in FirstKeyChoices(from_conn') :
                    keys_first' = [keys_first EXCEPT !.conn = f]
            /\ UNCHANGED <<from_streams, from_stream_types>>
    ELSE IF keys_first.streams # {}
    THEN \E key \in keys_first.streams :
            /\ from_streams' = Remove(from_streams, key)
            /\ \E f \in FirstKeyChoices(from_streams') :
                    keys_first' = [keys_first EXCEPT !.streams = f]
            /\ UNCHANGED <<from_conn, from_stream_types>>
    ELSE IF keys_first.types # {}
    THEN \E key \in keys_first.types :
            /\ from_stream_types' = Remove(from_stream_types, key)
            /\ \E f \in FirstKeyChoices(from_stream_types') :
                    keys_first' = [keys_first EXCEPT !.types = f]
            /\ UNCHANGED <<from_conn, from_streams>>
    ELSE UNCHANGED mgr_vars

---------------------------------------------------------------------------
(* FlowControlGenerator::generate.  The frame is measured through peek();  *)
(* when it fits it is taken with next() and wrapped in a token.  The       *)
(* expect("just peeked this") panics when next() returns None.             *)

\* The packets in flight, each holding the token of the frame it carries.
Slots == 1..MaxTokens
FreeSlots == {i \in Slots : tokens[i] = {}}
TokensInFlight == Cardinality(Slots \ FreeSlots)

\* Some(Box::new(FlowControlGeneratorToken(frame))), kept with the packet
\* being built: the first free slot.
Attach(token) ==
    [tokens EXCEPT ![CHOOSE i \in FreeSlots : \A j \in FreeSlots : i <= j] = token]

\* A fit check that lets through a frame one byte longer than the budget.
FitsOneByteOver(frame, remaining) == ~(MarshalLen(frame) > remaining + 1)

Fits(frame, remaining) == ~(MarshalLen(frame) > remaining)

\* A generate that wraps the peeked frame in a token and leaves it queued.
generate_without_pop(remaining) ==
    IF peek = {}
    THEN UNCHANGED <<mgr_vars, tokens, panicked>>
    ELSE \E frame \in peek :
            IF ~Fits(frame, remaining)
            THEN UNCHANGED <<mgr_vars, tokens, panicked>>
            ELSE /\ tokens' = Attach({frame})
                 /\ UNCHANGED <<mgr_vars, panicked>>

\* A generate that takes the frame that fits and hands out no token for it.
generate_without_token(remaining) ==
    IF peek = {}
    THEN UNCHANGED <<mgr_vars, tokens, panicked>>
    ELSE \E frame \in peek :
            IF ~Fits(frame, remaining)
            THEN UNCHANGED <<mgr_vars, tokens, panicked>>
            ELSE next /\ UNCHANGED <<tokens, panicked>>

generate(remaining) ==
    IF peek = {}
    THEN UNCHANGED <<mgr_vars, tokens, panicked>>
    ELSE \E frame \in peek :
            IF ~Fits(frame, remaining)
            THEN UNCHANGED <<mgr_vars, tokens, panicked>>
            ELSE /\ next
                 /\ IF next_frame = {}
                    THEN panicked' = TRUE /\ UNCHANGED tokens
                    ELSE /\ tokens' = Attach(next_frame)
                         /\ UNCHANGED panicked

\* Some((frame, token)) or None: what generate(remaining) returns.
generate_result(remaining) ==
    IF peek = {} \/ \E frame \in peek : ~Fits(frame, remaining)
    THEN {}
    ELSE next_frame

---------------------------------------------------------------------------
(* The connection, as far as the token callbacks read and write it.        *)

\* SendStream::reset_acked().
reset_acked(ss) == [ss EXCEPT !.reset_acked = TRUE]

\* RecvStream::maybe_send_flowc_update(): while the final size is not known,
\* a larger window than the one last announced is announced.
maybe_send_flowc_update(stream_id) ==
    LET rs == recv_streams[stream_id] IN
    IF ~rs.size_known /\ rs.next_max > rs.max_stream_data
    THEN /\ recv_streams' = [recv_streams EXCEPT ![stream_id].max_stream_data = rs.next_max]
         /\ max_stream_data(stream_id, rs.next_max)
    ELSE UNCHANGED <<recv_streams, mgr_vars>>

local_max_stream(stream_type) ==
    IF stream_type = "BiDi" THEN indexes.local_max_stream_bidi
                            ELSE indexes.local_max_stream_uni

\* An acked that takes a StopSending frame for a ResetStream frame as well.
acked_any_stream_frame(frame) ==
    /\ IF frame.kind \in {"ResetStream", "StopSending"}
          /\ frame.stream_id \in DOMAIN send_streams
       THEN send_streams' = [send_streams EXCEPT
                                ![frame.stream_id] = reset_acked(send_streams[frame.stream_id])]
       ELSE UNCHANGED send_streams
    /\ UNCHANGED <<mgr_vars, recv_streams, indexes>>

(* FlowControlGeneratorToken::acked. *)
acked(frame) ==
    /\ IF frame.kind = "ResetStream" /\ frame.stream_id \in DOMAIN send_streams
       THEN send_streams' = [send_streams EXCEPT
                                ![frame.stream_id] = reset_acked(send_streams[frame.stream_id])]
       ELSE UNCHANGED send_streams
    /\ UNCHANGED <<mgr_vars, recv_streams, indexes>>

(* FlowControlGeneratorToken::lost, one operator per match arm. *)

\* A ResetStream arm that resends whether or not the send stream is tracked.
lost_reset_stream_untracked_too(frame) ==
    /\ stream_reset(frame.stream_id, frame.application_error_code, frame.final_size)
    /\ UNCHANGED conn_vars

\* Frame::ResetStream: resent as captured if the send stream is still tracked.
lost_reset_stream(frame) ==
    /\ IF frame.stream_id \in DOMAIN send_streams
       THEN stream_reset(frame.stream_id, frame.application_error_code, frame.final_size)
       ELSE UNCHANGED mgr_vars
    /\ UNCHANGED conn_vars

\* A MaxStreams arm that resends the limit captured in the token.
lost_max_streams_captured(frame) ==
    /\ max_streams(frame.maximum_streams, frame.stream_type)
    /\ UNCHANGED conn_vars

\* Frame::MaxStreams: resent with the current local limit of its direction.
lost_max_streams(frame) ==
    /\ max_streams(local_max_stream(frame.stream_type), frame.stream_type)
    /\ UNCHANGED conn_vars

\* A DataBlocked arm that resends whether or not credit is left.
lost_data_blocked_always(frame) ==
    /\ data_blocked
    /\ UNCHANGED conn_vars

\* Frame::DataBlocked: resent only if the connection is still blocked.
lost_data_blocked(frame) ==
    /\ IF conn_credit_avail = 0 THEN data_blocked ELSE UNCHANGED mgr_vars
    /\ UNCHANGED conn_vars

\* A StreamDataBlocked arm that resends for a tracked stream whatever credit
\* it has.
lost_stream_data_blocked_while_tracked(frame) ==
    /\ IF frame.stream_id \in DOMAIN send_streams
       THEN stream_data_blocked(frame.stream_id,
                                send_streams[frame.stream_id].max_stream_data)
       ELSE UNCHANGED mgr_vars
    /\ UNCHANGED conn_vars

\* Frame::StreamDataBlocked: resent only if the stream is still blocked.
lost_stream_data_blocked(frame) ==
    /\ IF frame.stream_id \in DOMAIN send_streams
       THEN LET ss == send_streams[frame.stream_id] IN
            IF ss.credit_avail = 0
            THEN stream_data_blocked(frame.stream_id, ss.max_stream_data)
            ELSE UNCHANGED mgr_vars
       ELSE UNCHANGED mgr_vars
    /\ UNCHANGED conn_vars

\* A StreamsBlocked arm that resends only once the next stream index is past
\* the peer's limit.
lost_streams_blocked_strict(frame) ==
    /\ IF frame.stream_type = "UniDi"
       THEN IF indexes.peer_next_stream_uni > indexes.peer_max_stream_uni
            THEN streams_blocked(indexes.peer_max_stream_uni, "UniDi")
            ELSE UNCHANGED mgr_vars
       ELSE IF indexes.peer_next_stream_bidi > indexes.peer_max_stream_bidi
            THEN streams_blocked(indexes.peer_max_stream_bidi, "BiDi")
            ELSE UNCHANGED mgr_vars
    /\ UNCHANGED conn_vars

\* Frame::StreamsBlocked: resent only if still blocked on streams of its type.
lost_streams_blocked(frame) ==
    /\ IF frame.stream_type = "UniDi"
       THEN IF indexes.peer_next_stream_uni >= indexes.peer_max_stream_uni
            THEN streams_blocked(indexes.peer_max_stream_uni, "UniDi")
            ELSE UNCHANGED mgr_vars
       ELSE IF indexes.peer_next_stream_bidi >= indexes.peer_max_stream_bidi
            THEN streams_blocked(indexes.peer_max_stream_bidi, "BiDi")
            ELSE UNCHANGED mgr_vars
    /\ UNCHANGED conn_vars

\* A StopSending arm that resends only for a stream the connection tracks.
lost_stop_sending_if_tracked(frame) ==
    /\ IF frame.stream_id \in DOMAIN send_streams
       THEN stop_sending(frame.stream_id, frame.application_error_code)
       ELSE UNCHANGED mgr_vars
    /\ UNCHANGED conn_vars

\* Frame::StopSending: resent as captured.
lost_stop_sending(frame) ==
    /\ stop_sending(frame.stream_id, frame.application_error_code)
    /\ UNCHANGED conn_vars

\* A MaxStreamData arm that resends the maximum captured in the token.
lost_max_stream_data_captured(frame) ==
    /\ IF frame.stream_id \in DOMAIN recv_streams
       THEN max_stream_data(frame.stream_id, frame.maximum_stream_data)
       ELSE UNCHANGED mgr_vars
    /\ UNCHANGED conn_vars

\* Frame::MaxStreamData: the receive stream decides, if it is still tracked.
lost_max_stream_data(frame) ==
    /\ IF frame.stream_id \in DOMAIN recv_streams
       THEN maybe_send_flowc_update(frame.stream_id)
       ELSE UNCHANGED <<recv_streams, mgr_vars>>
    /\ UNCHANGED <<send_streams, indexes>>

\* A PathResponse arm that resends the captured payload.
lost_path_response_resent(frame) ==
    /\ path_response(frame.data)
    /\ UNCHANGED conn_vars

\* Frame::PathResponse: only logged.
lost_path_response(frame) == UNCHANGED <<mgr_vars, conn_vars>>

lost(frame) ==
    CASE frame.kind = "ResetStream" -> lost_reset_stream(frame)
      [] frame.kind = "MaxStreams" -> lost_max_streams(frame)
      [] frame.kind = "DataBlocked" -> lost_data_blocked(frame)
      [] frame.kind = "StreamDataBlocked" -> lost_stream_data_blocked(frame)
      [] frame.kind = "StreamsBlocked" -> lost_streams_blocked(frame)
      [] frame.kind = "StopSending" -> lost_stop_sending(frame)
      [] frame.kind = "MaxStreamData" -> lost_max_stream_data(frame)
      [] frame.kind = "PathResponse" -> lost_path_response(frame)

---------------------------------------------------------------------------
(* The calls made on the flow manager, one action per call.  A call on a   *)
(* manager that has panicked does not happen.                              *)

\* An external emit may add a key only while fewer than MaxFrames frames are
\* queued or in flight; replacing the frame under a queued key is always
\* possible.
Room(map, key) == key \in Keys(map) \/ QueuedCount + TokensInFlight < MaxFrames

Rest == <<credit_vars, need_close_frame, panicked, tokens, conn_vars>>

CallDataBlocked ==
    /\ ~panicked /\ Room(from_conn, "DataBlocked")
    /\ data_blocked /\ UNCHANGED Rest

CallPathResponse(datas) ==
    /\ ~panicked /\ Room(from_conn, "PathResponse")
    /\ \E data \in datas : path_response(data)
    /\ UNCHANGED Rest

CallStreamReset(ids, errs, sizes) ==
    /\ ~panicked
    /\ \E stream_id \in ids, err \in errs, final_size \in sizes :
            /\ Room(from_streams, <<stream_id, "ResetStream">>)
            /\ stream_reset(stream_id, err, final_size)
    /\ UNCHANGED Rest

CallStopSending(ids, errs) ==
    /\ ~panicked
    /\ \E stream_id \in ids, err \in errs :
            /\ Room(from_streams, <<stream_id, "StopSending">>)
            /\ stop_sending(stream_id, err)
    /\ UNCHANGED Rest

CallMaxStreamData(ids, limits) ==
    /\ ~panicked
    /\ \E stream_id \in ids, maximum \in limits :
            /\ Room(from_streams, <<stream_id, "MaxStreamData">>)
            /\ max_stream_data(stream_id, maximum)
    /\ UNCHANGED Rest

CallStreamDataBlocked(ids, limits) ==
    /\ ~panicked
    /\ \E stream_id \in ids, limit \in limits :
            /\ Room(from_streams, <<stream_id, "StreamDataBlocked">>)
            /\ stream_data_blocked(stream_id, limit)
    /\ UNCHANGED Rest

CallMaxStreams(types, limits) ==
    /\ ~panicked
    /\ \E stream_type \in types, limit \in limits :
            /\ Room(from_stream_types, <<stream_type, "MaxStreams">>)
            /\ max_streams(limit, stream_type)
    /\ UNCHANGED Rest

CallStreamsBlocked(types, limits) ==
    /\ ~panicked
    /\ \E stream_type \in types, limit \in limits :
            /\ Room(from_stream_types, <<stream_type, "StreamsBlocked">>)
            /\ streams_blocked(limit, stream_type)
    /\ UNCHANGED Rest

IncreaseCreditUsedStep(amount) ==
    /\ ~panicked
    /\ conn_increase_credit_used(amount)
    /\ UNCHANGED <<mgr_vars, max_data, need_close_frame, tokens, conn_vars>>

CallIncreaseCreditUsed == \E amount \in U64 : IncreaseCreditUsedStep(amount)

IncreaseMaxCreditStep(new) ==
    /\ ~panicked
    /\ conn_increase_max_credit(new)
    /\ UNCHANGED <<mgr_vars, used_data, need_close_frame, panicked, tokens, conn_vars>>

CallIncreaseMaxCredit == \E new \in U64 : IncreaseMaxCreditStep(new)

CallSetNeedCloseFrame ==
    /\ ~panicked
    /\ \E new \in BOOLEAN : set_need_close_frame(new)
    /\ UNCHANGED <<mgr_vars, credit_vars, panicked, tokens, conn_vars>>

CallNext ==
    /\ ~panicked
    /\ next
    /\ UNCHANGED Rest

\* generate is called while a packet is being built: a slot is free.
GenerateStep(remaining) ==
    /\ ~panicked
    /\ FreeSlots # {}
    /\ generate(remaining)
    /\ UNCHANGED <<credit_vars, need_close_frame, conn_vars>>

CallGenerate == \E remaining \in 0..MaxRemaining : GenerateStep(remaining)

(* The packet tracker: the fate of the packet in slot i is decided once;    *)
(* its token gets that one callback and is dropped with the packet.         *)
TokenAcked(i) ==
    /\ ~panicked
    /\ \E frame \in tokens[i] :
            /\ acked(frame)
            /\ tokens' = [tokens EXCEPT ![i] = {}]
    /\ UNCHANGED <<credit_vars, need_close_frame, panicked>>

\* A tracker that keeps the token of a lost packet.
TokenLostKept(i) ==
    /\ ~panicked
    /\ \E frame \in tokens[i] : lost(frame)
    /\ UNCHANGED <<tokens, credit_vars, need_close_frame, panicked>>

TokenLost(i) ==
    /\ ~panicked
    /\ \E frame \in tokens[i] :
            /\ lost(frame)
            /\ tokens' = [tokens EXCEPT ![i] = {}]
    /\ UNCHANGED <<credit_vars, need_close_frame, panicked>>

(* The rest of the connection, as far as it changes what a lost callback    *)
(* reads: streams are retired, stream credit and windows move, and stream   *)
(* limits advance.  All of it only while the program runs.                  *)

SendLimits == {10, 20}
RecvWindows == {20, 30}
LocalLimits == {20, 30}

Without(streams, stream_id) ==
    [id \in DOMAIN streams \ {stream_id} |-> streams[id]]

\* The connection stops tracking a send stream.
RetireSendStream(stream_id) ==
    /\ ~panicked
    /\ stream_id \in DOMAIN send_streams
    /\ send_streams' = Without(send_streams, stream_id)
    /\ UNCHANGED <<mgr_vars, credit_vars, need_close_frame, panicked, tokens,
                   recv_streams, indexes>>

\* Data is sent on a send stream or its peer raises the stream's limit: the
\* credit left is 0 or not, and the limit does not decrease.
SendStreamCredit(stream_id) ==
    /\ ~panicked
    /\ stream_id \in DOMAIN send_streams
    /\ \E credit \in {0, 1}, limit \in SendLimits :
            /\ limit >= send_streams[stream_id].max_stream_data
            /\ send_streams' = [send_streams EXCEPT ![stream_id].credit_avail = credit,
                                                    ![stream_id].max_stream_data = limit]
            /\ send_streams' # send_streams
    /\ UNCHANGED <<mgr_vars, credit_vars, need_close_frame, panicked, tokens,
                   recv_streams, indexes>>

\* The connection stops tracking a receive stream.
RetireRecvStream(stream_id) ==
    /\ ~panicked
    /\ stream_id \in DOMAIN recv_streams
    /\ recv_streams' = Without(recv_streams, stream_id)
    /\ UNCHANGED <<mgr_vars, credit_vars, need_close_frame, panicked, tokens,
                   send_streams, indexes>>

\* The application reads from a receive stream: the window it could announce
\* grows.
RecvStreamRead(stream_id) ==
    /\ ~panicked
    /\ stream_id \in DOMAIN recv_streams
    /\ \E window \in RecvWindows :
            /\ window > recv_streams[stream_id].next_max
            /\ recv_streams' = [recv_streams EXCEPT ![stream_id].next_max = window]
    /\ UNCHANGED <<mgr_vars, credit_vars, need_close_frame, panicked, tokens,
                   send_streams, indexes>>

\* The final size of a receive stream becomes known.
RecvStreamSizeKnown(stream_id) ==
    /\ ~panicked
    /\ stream_id \in DOMAIN recv_streams
    /\ ~recv_streams[stream_id].size_known
    /\ recv_streams' = [recv_streams EXCEPT ![stream_id].size_known = TRUE]
    /\ UNCHANGED <<mgr_vars, credit_vars, need_close_frame, panicked, tokens,
                   send_streams, indexes>>

\* The local limit on unidirectional streams of the peer advances.
AdvanceLocalMaxUni ==
    /\ ~panicked
    /\ \E limit \in LocalLimits :
            /\ limit > indexes.local_max_stream_uni
            /\ indexes' = [indexes EXCEPT !.local_max_stream_uni = limit]
    /\ UNCHANGED <<mgr_vars, credit_vars, need_close_frame, panicked, tokens,
                   send_streams, recv_streams>>

\* Unidirectional streams are opened up to the peer's limit.
OpenStreamsUni ==
    /\ ~panicked
    /\ indexes.peer_next_stream_uni < indexes.peer_max_stream_uni
    /\ indexes' = [indexes EXCEPT !.peer_next_stream_uni = indexes.peer_max_stream_uni]
    /\ UNCHANGED <<mgr_vars, credit_vars, need_close_frame, panicked, tokens,
                   send_streams, recv_streams>>

\* The peer raises its limit on unidirectional streams.
RaisePeerMaxUni ==
    /\ ~panicked
    /\ \E limit \in SendLimits :
            /\ limit > indexes.peer_max_stream_uni
            /\ indexes' = [indexes EXCEPT !.peer_max_stream_uni = limit]
    /\ UNCHANGED <<mgr_vars, credit_vars, need_close_frame, panicked, tokens,
                   send_streams, recv_streams>>

InitMgr ==
    /\ from_conn = {} /\ from_streams = {} /\ from_stream_types = {}
    /\ keys_first = [conn |-> {}, streams |-> {}, types |-> {}]
    /\ used_data = 0 /\ max_data = 0
    /\ need_close_frame = FALSE
    /\ panicked = FALSE
    /\ tokens = [i \in Slots |-> {}]

\* A connection with stream 0 open in both directions and stream 4 not
\* tracked, blocked on bidirectional streams and not on unidirectional ones.
InitConn ==
    /\ send_streams = (0 :> [reset_acked |-> FALSE, credit_avail |-> 0,
                             max_stream_data |-> 10])
    /\ recv_streams = (0 :> [size_known |-> FALSE, max_stream_data |-> 10,
                             next_max |-> 20])
    /\ indexes = [local_max_stream_bidi |-> 10, local_max_stream_uni |-> 20,
                  peer_next_stream_bidi |-> 10, peer_max_stream_bidi |-> 10,
                  peer_next_stream_uni |-> 0, peer_max_stream_uni |-> 10]

Init == InitMgr /\ InitConn

Next ==
    \/ CallDataBlocked
    \/ CallPathResponse(PathData)
    \/ CallStreamReset(StreamIds, AppErrors, FinalSizes)
    \/ CallStopSending(StreamIds, AppErrors)
    \/ CallMaxStreamData(StreamIds, InitialLimits)
    \/ CallStreamDataBlocked(StreamIds, InitialLimits)
    \/ CallMaxStreams(StreamTypes, InitialLimits)
    \/ CallStreamsBlocked(StreamTypes, InitialLimits)
    \/ CallNext
    \/ CallGenerate
    \/ \E i \in Slots : TokenAcked(i)
    \/ \E i \in Slots : TokenLost(i)

Spec == Init /\ [][Next]_vars

(* The credit accounting with the connection-scoped frames, whose content   *)
(* and resend decision read it.                                             *)
NextCredit ==
    \/ CallIncreaseCreditUsed
    \/ CallIncreaseMaxCredit
    \/ CallSetNeedCloseFrame
    \/ CallDataBlocked
    \/ CallPathResponse({1})
    \/ CallStreamReset({0}, {7}, FinalSizes)
    \/ CallMaxStreams({"UniDi"}, InitialLimits)
    \/ CallNext
    \/ CallGenerate
    \/ \E i \in Slots : TokenAcked(i)
    \/ \E i \in Slots : TokenLost(i)

SpecCredit == Init /\ [][NextCredit]_vars

(* Tokens in flight while credit is consumed, with a packet tracker that     *)
(* decides the fate of every packet in flight.                              *)
NextTokens ==
    \/ CallIncreaseCreditUsed
    \/ CallIncreaseMaxCredit
    \/ CallDataBlocked
    \/ CallStreamReset(StreamIds, {7}, FinalSizes)
    \/ CallGenerate
    \/ \E i \in Slots : TokenAcked(i)
    \/ \E i \in Slots : TokenLost(i)

FairSpecTokens ==
    /\ Init /\ [][NextTokens]_vars
    /\ \A i \in Slots : WF_vars(TokenAcked(i) \/ TokenLost(i))

(* The frames about send streams, with a connection that retires the send   *)
(* stream and moves its credit.  Frames leave the manager through generate.  *)
NextSend ==
    \/ CallStreamReset(StreamIds, AppErrors, FinalSizes)
    \/ CallStopSending(StreamIds, AppErrors)
    \/ CallStreamDataBlocked(StreamIds, InitialLimits)
    \/ CallGenerate
    \/ \E i \in Slots : TokenAcked(i)
    \/ \E i \in Slots : TokenLost(i)
    \/ \E stream_id \in StreamIds : RetireSendStream(stream_id)
    \/ \E stream_id \in StreamIds : SendStreamCredit(stream_id)

SpecSend == Init /\ [][NextSend]_vars

(* The receive window frames, with a connection whose receive stream is     *)
(* read, finished and retired.                                              *)
NextRecv ==
    \/ CallMaxStreamData(StreamIds, InitialLimits)
    \/ CallStopSending({0}, {7})
    \/ CallGenerate
    \/ \E i \in Slots : TokenAcked(i)
    \/ \E i \in Slots : TokenLost(i)
    \/ \E stream_id \in StreamIds : RetireRecvStream(stream_id)
    \/ \E stream_id \in StreamIds : RecvStreamRead(stream_id)
    \/ \E stream_id \in StreamIds : RecvStreamSizeKnown(stream_id)

SpecRecv == Init /\ [][NextRecv]_vars

(* The frames about stream limits, with a connection whose stream indexes   *)
(* for unidirectional streams advance.                                      *)
NextIndexes ==
    \/ CallMaxStreams(StreamTypes, InitialLimits)
    \/ CallStreamsBlocked(StreamTypes, InitialLimits)
    \/ CallGenerate
    \/ \E i \in Slots : TokenAcked(i)
    \/ \E i \in Slots : TokenLost(i)
    \/ AdvanceLocalMaxUni
    \/ OpenStreamsUni
    \/ RaisePeerMaxUni

SpecIndexes == Init /\ [][NextIndexes]_vars

(* The packet builder draining the manager: generate is called again and    *)
(* again with room for any frame, and the packets sent are acknowledged; no  *)
(* emit is called and no packet is lost.  It starts from any queue the       *)
(* emits can build.                                                         *)
DrainFrames ==
    {DataBlocked(0), PathResponse(1),
     ResetStream(0, 7, 100), StopSending(0, 7), StopSending(4, 8), MaxStreamData(4, 10),
     MaxStreams("UniDi", 10), StreamsBlocked("BiDi", 10)}

Entry(key, frame) == [key |-> key, frame |-> frame]

InitDrain ==
    /\ from_conn \in SUBSET {Entry(f.kind, f) : f \in {g \in DrainFrames : g.kind \in ConnKinds}}
    /\ from_streams \in SUBSET {Entry(<<f.stream_id, f.kind>>, f) :
                                    f \in {g \in DrainFrames : g.kind \in StreamKinds}}
    /\ from_stream_types \in SUBSET {Entry(<<f.stream_type, f.kind>>, f) :
                                    f \in {g \in DrainFrames : g.kind \in StreamTypeKinds}}
    /\ QueuedCount <= MaxFrames + 1
    /\ \E c \in FirstKeyChoices(from_conn), s \in FirstKeyChoices(from_streams),
          t \in FirstKeyChoices(from_stream_types) :
            keys_first = [conn |-> c, streams |-> s, types |-> t]
    /\ used_data = 0 /\ max_data = 0
    /\ need_close_frame = FALSE
    /\ panicked = FALSE
    /\ tokens = [i \in Slots |-> {}]
    /\ InitConn

NextDrain ==
    \/ GenerateStep(MaxRemaining)
    \/ \E i \in Slots : TokenAcked(i)

FairSpecDrain ==
    /\ InitDrain /\ [][NextDrain]_vars
    /\ WF_vars(GenerateStep(MaxRemaining))
    /\ \A i \in Slots : WF_vars(TokenAcked(i))

---------------------------------------------------------------------------
(* Properties. *)

FramesOf(map) == {e.frame : e \in map}

\* C1: each of the three maps holds at most one frame per dedup key (kind;
\* (stream id, kind); (stream type, kind)), every entry sits under the key of
\* its own frame, and every emit (also one made by a lost callback) leaves
\* exactly the newly built frame under its key and the entries under every
\* other key, in all three maps, as they were; data_blocked leaves one
\* DataBlocked frame however often it is called.
C1_UniqueKeys(map) == \A e1, e2 \in map : e1.key = e2.key => e1 = e2

C1_Inv ==
    /\ C1_UniqueKeys(from_conn)
    /\ C1_UniqueKeys(from_streams)
    /\ C1_UniqueKeys(from_stream_types)
    /\ \A e \in from_conn : e.frame.kind \in ConnKinds /\ e.key = e.frame.kind
    /\ \A e \in from_streams :
            e.frame.kind \in StreamKinds /\ e.key = <<e.frame.stream_id, e.frame.kind>>
    /\ \A e \in from_stream_types :
            e.frame.kind \in StreamTypeKinds /\ e.key = <<e.frame.stream_type, e.frame.kind>>

C1_Replaced(old, new, key, frame) ==
    /\ {e \in new : e.key = key} = {[key |-> key, frame |-> frame]}
    /\ {e \in new : e.key # key} = {e \in old : e.key # key}

C1_InConn(frame) ==
    /\ C1_Replaced(from_conn, from_conn', frame.kind, frame)
    /\ UNCHANGED <<from_streams, from_stream_types>>

C1_InStreams(frame) ==
    /\ C1_Replaced(from_streams, from_streams', <<frame.stream_id, frame.kind>>, frame)
    /\ UNCHANGED <<from_conn, from_stream_types>>

C1_InStreamTypes(frame) ==
    /\ C1_Replaced(from_stream_types, from_stream_types',
                   <<frame.stream_type, frame.kind>>, frame)
    /\ UNCHANGED <<from_conn, from_streams>>

\* The emit that builds `frame`, as a step of the manager.
C1_EmitOf(frame) ==
    CASE frame.kind = "DataBlocked" -> frame.data_limit = max_data /\ data_blocked
      [] frame.kind = "PathResponse" -> path_response(frame.data)
      [] frame.kind = "ResetStream" ->
            stream_reset(frame.stream_id, frame.application_error_code, frame.final_size)
      [] frame.kind = "StopSending" ->
            stop_sending(frame.stream_id, frame.application_error_code)
      [] frame.kind = "MaxStreamData" ->
            max_stream_data(frame.stream_id, frame.maximum_stream_data)
      [] frame.kind = "StreamDataBlocked" ->
            stream_data_blocked(frame.stream_id, frame.stream_data_limit)
      [] frame.kind = "MaxStreams" -> max_streams(frame.maximum_streams, frame.stream_type)
      [] frame.kind = "StreamsBlocked" -> streams_blocked(frame.stream_limit, frame.stream_type)

\* An emit leaves its frame queued, so the emits a step can be are those of
\* the frames queued after it.
C1_Emit ==
    /\ \A e \in from_conn' : C1_EmitOf(e.frame) => C1_InConn(e.frame)
    /\ \A e \in from_streams' : C1_EmitOf(e.frame) => C1_InStreams(e.frame)
    /\ \A e \in from_stream_types' : C1_EmitOf(e.frame) => C1_InStreamTypes(e.frame)
    /\ data_blocked => Cardinality({e \in from_conn' : e.frame.kind = "DataBlocked"}) = 1

C1_OneFramePerKey == []C1_Inv /\ [][C1_Emit]_vars

\* Both connection-scoped kinds are queued, one frame each.
C1_Witness ==
    /\ Cardinality(from_conn) = 2
    /\ {e.key : e \in from_conn} = ConnKinds

\* C2: while the manager has not failed fatally, used_data <= max_data, both
\* are in range, and conn_credit_avail does not underflow.
C2_CreditWithinLimit ==
    ~panicked =>
        /\ used_data \in U64 /\ max_data \in U64
        /\ used_data <= max_data
        /\ conn_credit_avail \in U64

\* All granted credit is used, and some was granted.
C2_Witness == ~panicked /\ used_data = max_data /\ used_data > 0

\* C3 (as claimed): conn_increase_credit_used(amount) succeeds with
\* used_data' = used_data + amount when that sum is <= max_data, and fails
\* fatally when the sum is greater than max_data.
C3_IncreaseUsedExact ==
    [][\A amount \in U64 :
            IncreaseCreditUsedStep(amount) =>
                IF used_data + amount <= max_data
                THEN ~panicked' /\ used_data' = used_data + amount
                ELSE panicked']_vars

\* C4: conn_increase_max_credit(new) sets max_data to the larger of the old
\* max_data and new and changes nothing else; it changes nothing at all when
\* new <= max_data; no step of any operation decreases max_data.
C4_Step ==
    \A new \in U64 :
        IncreaseMaxCreditStep(new) =>
            /\ max_data' >= max_data /\ max_data' >= new
            /\ max_data' \in {max_data, new}
            /\ UNCHANGED <<mgr_vars, used_data, need_close_frame, panicked, tokens, conn_vars>>
            /\ new <= max_data => UNCHANGED vars

C4_MaxCreditMonotonic == [][C4_Step /\ max_data' >= max_data]_vars

\* Credit was granted and partly used.
C4_Witness == ~panicked /\ max_data > 1 /\ used_data > 0 /\ used_data < max_data

\* C5: peek() and next() take the frame from from_conn when it is not empty,
\* else from from_streams when that is not empty, else from
\* from_stream_types, and return None exactly when all three are empty.
C5_Priority(result) ==
    /\ Cardinality(result) <= 1
    /\ (result = {}) <=> (from_conn = {} /\ from_streams = {} /\ from_stream_types = {})
    /\ from_conn # {} =>
            result \subseteq FramesOf(from_conn) /\ \A f \in result : f.kind \in ConnKinds
    /\ from_conn = {} /\ from_streams # {} =>
            result \subseteq FramesOf(from_streams) /\ \A f \in result : f.kind \in StreamKinds
    /\ from_conn = {} /\ from_streams = {} =>
            result \subseteq FramesOf(from_stream_types)

C5_ScopePriority == C5_Priority(peek) /\ C5_Priority(next_frame)

\* No connection-scoped frame, and both a per-stream and a per-direction one.
C5_Witness == from_conn = {} /\ from_streams # {} /\ from_stream_types # {}

\* Whether a frame is queued under the dedup key of `frame`.
KeyQueued(frame) ==
    IF frame.kind \in ConnKinds THEN frame.kind \in Keys(from_conn)
    ELSE IF frame.kind \in StreamKinds
    THEN <<frame.stream_id, frame.kind>> \in Keys(from_streams)
    ELSE <<frame.stream_type, frame.kind>> \in Keys(from_stream_types)

\* The step removes exactly the entries holding `frames` (one frame or none)
\* from the manager and adds none.
RemovedExactly(frames) ==
    /\ from_conn' \subseteq from_conn
    /\ from_streams' \subseteq from_streams
    /\ from_stream_types' \subseteq from_stream_types
    /\ QueuedCount' = QueuedCount - Cardinality(frames)
    /\ FramesOf(from_conn \ from_conn') \cup FramesOf(from_streams \ from_streams')
         \cup FramesOf(from_stream_types \ from_stream_types') = frames

\* C6: next() selects the frame peek() selects; a pop removes exactly the
\* entry of the frame peek() returned just before and changes nothing else;
\* and peek() returns the same frame across the calls that mutate no map.
C6_Step ==
    /\ CallNext =>
            /\ RemovedExactly(peek)
            /\ UNCHANGED <<credit_vars, need_close_frame, panicked, tokens, conn_vars>>
    /\ CallIncreaseCreditUsed \/ CallIncreaseMaxCredit \/ CallSetNeedCloseFrame =>
            peek' = peek /\ UNCHANGED mgr_vars

C6_PeekThenPop == [](peek = next_frame) /\ [][C6_Step]_vars

\* Two connection-scoped frames are queued, so which of the two is next is
\* the map's choice; credit is in use and the close flag is set.
C6_Witness == Cardinality(from_conn) = 2 /\ used_data > 0 /\ need_close_frame /\ ~panicked

\* C7: when nothing is queued, or the frame peek() returns is longer than
\* `remaining`, generate returns None, creates no token and changes nothing,
\* whatever else is queued; a head frame exactly `remaining` long is returned.
C7_NoFit(remaining) == peek = {} \/ \E frame \in peek : MarshalLen(frame) > remaining

C7_Step ==
    \A remaining \in 0..MaxRemaining :
        C7_NoFit(remaining) /\ GenerateStep(remaining) => UNCHANGED vars /\ peek' = peek

C7_Inv ==
    \A remaining \in 0..MaxRemaining :
        /\ C7_NoFit(remaining) => generate_result(remaining) = {}
        /\ \A frame \in peek :
                MarshalLen(frame) = remaining => generate_result(remaining) = {frame}

C7_BudgetGating == []C7_Inv /\ [][C7_Step]_vars

\* A 9-byte PathResponse is the head of the queue, a shorter frame is queued
\* behind it, and a packet is being built.
C7_Witness ==
    /\ keys_first.conn = {"PathResponse"}
    /\ Cardinality(from_conn) = 2 \/ from_streams # {} \/ from_stream_types # {}
    /\ FreeSlots # {}

\* C8: when the head frame fits, generate removes exactly that frame, returns
\* it, and creates exactly one token, which holds that frame; nothing is then
\* queued under the frame's key; and neither a pop, a generate nor an acked
\* callback ever adds a frame to the manager.
C8_Step ==
    /\ \A remaining \in 0..MaxRemaining : \A frame \in peek :
            MarshalLen(frame) <= remaining /\ GenerateStep(remaining) =>
                /\ RemovedExactly({frame})
                /\ ~KeyQueued(frame)'
                /\ generate_result(remaining) = {frame}
                /\ \E i \in Slots :
                        tokens[i] = {} /\ tokens' = [tokens EXCEPT ![i] = {frame}]
                /\ UNCHANGED <<credit_vars, need_close_frame, panicked, conn_vars>>
    /\ CallNext \/ CallGenerate \/ (\E i \in Slots : TokenAcked(i)) =>
            /\ from_conn' \subseteq from_conn
            /\ from_streams' \subseteq from_streams
            /\ from_stream_types' \subseteq from_stream_types

C8_PopIntoOneToken == [][C8_Step]_vars

\* A token is in flight and nothing is queued under its frame's key.
C8_Witness == \E i \in Slots : tokens[i] # {} /\ \A frame \in tokens[i] : ~KeyQueued(frame)

C9_Step ==
    \A i \in Slots :
        /\ tokens'[i] # tokens[i] /\ tokens[i] # {} =>
                /\ TokenAcked(i) \/ TokenLost(i)
                /\ tokens'[i] = {}
        /\ TokenAcked(i) \/ TokenLost(i) =>
                /\ tokens[i] # {} /\ tokens'[i] = {}
                /\ \A j \in Slots \ {i} : tokens'[j] = tokens[j]

C10_Step ==
    \A i \in Slots : \A frame \in tokens[i] :
        TokenAcked(i) =>
            /\ UNCHANGED <<mgr_vars, credit_vars, need_close_frame, panicked,
                           recv_streams, indexes>>
            /\ IF frame.kind = "ResetStream" /\ frame.stream_id \in DOMAIN send_streams
               THEN /\ DOMAIN send_streams' = DOMAIN send_streams
                    /\ \A id \in DOMAIN send_streams :
                            send_streams'[id] =
                                IF id = frame.stream_id
                                THEN [send_streams[id] EXCEPT !.reset_acked = TRUE]
                                ELSE send_streams[id]
               ELSE UNCHANGED send_streams

C10_AckedOnlyMarksReset == [][C10_Step]_vars

\* The reset of stream 0 has been acknowledged.
C10_Witness == 0 \in DOMAIN send_streams /\ send_streams[0].reset_acked

\* The step is the lost callback of the token in slot i and changes nothing
\* but the three maps.
LostStep(i) ==
    /\ TokenLost(i)
    /\ UNCHANGED <<credit_vars, need_close_frame, panicked, conn_vars>>

\* C11: stream_reset(id, error, final_size) leaves a ResetStream frame with
\* exactly those fields queued; queued alone, it is what peek() and next()
\* return, and a generate that it fits in empties the manager into a token
\* holding it; lost() on a ResetStream token of a tracked send stream leaves
\* the captured frame queued under its key and every other entry as it was;
\* for a send stream no longer tracked lost() changes nothing.
C11_Alone(e) == QueuedCount = 1 /\ e.frame.kind = "ResetStream"

C11_Inv == \A e \in from_streams : C11_Alone(e) => peek = {e.frame} /\ next_frame = {e.frame}

C11_Step ==
    /\ \A stream_id \in StreamIds, err \in AppErrors, final_size \in FinalSizes :
            ~panicked /\ stream_reset(stream_id, err, final_size) /\ UNCHANGED Rest =>
                ResetStream(stream_id, err, final_size) \in FramesOf(from_streams')
    /\ \A e \in from_streams :
            C11_Alone(e) /\ GenerateStep(MarshalLen(e.frame)) =>
                /\ QueuedCount' = 0
                /\ \E i \in Slots : tokens[i] = {} /\ tokens'[i] = {e.frame}
    /\ \A i \in Slots : \A frame \in tokens[i] :
            frame.kind = "ResetStream" /\ TokenLost(i) =>
                /\ LostStep(i)
                /\ IF frame.stream_id \in DOMAIN send_streams
                   THEN C1_InStreams(frame)
                   ELSE UNCHANGED mgr_vars

C12_Step ==
    \A i \in Slots : \A frame \in tokens[i] :
        frame.kind = "MaxStreams" /\ TokenLost(i) =>
            /\ LostStep(i)
            /\ C1_InStreamTypes(MaxStreams(frame.stream_type,
                                           local_max_stream(frame.stream_type)))

C12_LostMaxStreamsCurrent == [][C12_Step]_vars

\* A MaxStreams token for unidirectional streams holds a limit the local
\* limit has moved past, while a MaxStreams frame for the other direction is
\* queued.
C12_Witness ==
    /\ \E i \in Slots : \E frame \in tokens[i] :
            /\ frame.kind = "MaxStreams" /\ frame.stream_type = "UniDi"
            /\ frame.maximum_streams < indexes.local_max_stream_uni
    /\ <<"BiDi", "MaxStreams">> \in Keys(from_stream_types)

\* C13: lost() on a DataBlocked token queues a DataBlocked frame exactly when
\* max_data - used_data = 0 at the callback, and that frame carries the
\* current max_data, whatever limit the token captured; when credit is left
\* (conn_increase_max_credit raised the limit meanwhile) it changes nothing.
C13_Step ==
    \A i \in Slots : \A frame \in tokens[i] :
        frame.kind = "DataBlocked" /\ TokenLost(i) =>
            /\ LostStep(i)
            /\ IF max_data - used_data = 0
               THEN C1_InConn(DataBlocked(max_data))
               ELSE UNCHANGED mgr_vars

C13_LostDataBlockedIfExhausted == [][C13_Step]_vars

\* A DataBlocked token holds a limit that has been raised since, and the
\* raised credit is used up again.
C13_Witness ==
    /\ ~panicked /\ max_data - used_data = 0
    /\ \E i \in Slots : \E frame \in tokens[i] :
            frame.kind = "DataBlocked" /\ frame.data_limit < max_data

\* C14: lost() on a PathResponse token, whatever its payload, changes neither
\* the three maps nor anything else but the token it consumes; a manager that
\* was empty before the callback is empty after it.
C14_Step ==
    \A i \in Slots : \A frame \in tokens[i] :
        frame.kind = "PathResponse" /\ TokenLost(i) =>
            /\ LostStep(i)
            /\ UNCHANGED mgr_vars
            /\ tokens' = [tokens EXCEPT ![i] = {}]
            /\ QueuedCount = 0 => QueuedCount' = 0

C14_PathResponseNeverResent == [][C14_Step]_vars

\* A PathResponse was popped into a token and the manager is empty.
C14_Witness ==
    /\ QueuedCount = 0
    /\ \E i \in Slots : \E frame \in tokens[i] : frame.kind = "PathResponse"

\* C15: for a send stream that stays tracked, once stream_reset(s, ..) is
\* emitted a ResetStream frame for s is queued or held by a token in flight
\* in every state, until the acked callback of a ResetStream token for s
\* fires.  Frames leave the manager through generate.
ResetQueued(stream_id) == <<stream_id, "ResetStream">> \in Keys(from_streams)

ResetInFlight(i, stream_id) ==
    \E frame \in tokens[i] : frame.kind = "ResetStream" /\ frame.stream_id = stream_id

ResetPending(stream_id) ==
    ResetQueued(stream_id) \/ \E i \in Slots : ResetInFlight(i, stream_id)

C15_Step ==
    \A stream_id \in StreamIds :
        /\ \A err \in AppErrors, final_size \in FinalSizes :
                ~panicked /\ stream_reset(stream_id, err, final_size) /\ UNCHANGED Rest =>
                    ResetPending(stream_id)'
        /\ /\ ResetPending(stream_id)
           /\ stream_id \in DOMAIN send_streams
           /\ stream_id \in DOMAIN send_streams'
           => \/ ResetPending(stream_id)'
              \/ \E i \in Slots : ResetInFlight(i, stream_id) /\ TokenAcked(i)

C16_Step ==
    \A i \in Slots : \A frame \in tokens[i] :
        frame.kind = "StreamDataBlocked" /\ TokenLost(i) =>
            /\ LostStep(i)
            /\ IF /\ frame.stream_id \in DOMAIN send_streams
                  /\ send_streams[frame.stream_id].credit_avail = 0
               THEN C1_InStreams(StreamDataBlocked(
                        frame.stream_id, send_streams[frame.stream_id].max_stream_data))
               ELSE UNCHANGED mgr_vars

C16_LostStreamDataBlockedIfExhausted == [][C16_Step]_vars

\* A StreamDataBlocked token of a tracked stream holds a limit the peer has
\* raised since, and the stream is blocked again.
C16_Witness ==
    \E i \in Slots : \E frame \in tokens[i] :
        /\ frame.kind = "StreamDataBlocked"
        /\ frame.stream_id \in DOMAIN send_streams
        /\ send_streams[frame.stream_id].credit_avail = 0
        /\ send_streams[frame.stream_id].max_stream_data > frame.stream_data_limit

\* C17: lost() on a StreamsBlocked token for a direction queues a
\* StreamsBlocked frame for that direction exactly when the peer next-stream
\* index of the direction is >= its peer max-stream index at the callback;
\* the frame carries that current peer max-stream index, whatever limit the
\* token captured, under the key of the same direction; otherwise the
\* callback changes nothing.
PeerNextStream(stream_type) ==
    IF stream_type = "UniDi" THEN indexes.peer_next_stream_uni
                             ELSE indexes.peer_next_stream_bidi

PeerMaxStream(stream_type) ==
    IF stream_type = "UniDi" THEN indexes.peer_max_stream_uni
                             ELSE indexes.peer_max_stream_bidi

C17_Step ==
    \A i \in Slots : \A frame \in tokens[i] :
        frame.kind = "StreamsBlocked" /\ TokenLost(i) =>
            /\ LostStep(i)
            /\ IF PeerNextStream(frame.stream_type) >= PeerMaxStream(frame.stream_type)
               THEN C1_InStreamTypes(StreamsBlocked(frame.stream_type,
                                                    PeerMaxStream(frame.stream_type)))
               ELSE UNCHANGED mgr_vars

C17_LostStreamsBlockedIfBlocked == [][C17_Step]_vars

\* A StreamsBlocked token for unidirectional streams holds a limit the peer
\* has raised since, and the streams up to the raised limit are open.
C17_Witness ==
    \E i \in Slots : \E frame \in tokens[i] :
        /\ frame.kind = "StreamsBlocked" /\ frame.stream_type = "UniDi"
        /\ frame.stream_limit < indexes.peer_max_stream_uni
        /\ indexes.peer_next_stream_uni = indexes.peer_max_stream_uni

\* C18: lost() on a StopSending token always leaves the captured frame
\* (stream id and application error code of the token) queued under
\* (stream id, StopSending), tracked stream or not, in place of any
\* StopSending frame queued for that stream, and leaves every other key, the
\* other maps and the connection as they were.
C18_Step ==
    \A i \in Slots : \A frame \in tokens[i] :
        frame.kind = "StopSending" /\ TokenLost(i) =>
            /\ LostStep(i)
            /\ C1_InStreams(frame)
            /\ Get(from_streams', <<frame.stream_id, "StopSending">>) =
                    StopSending(frame.stream_id, frame.application_error_code)

C18_LostStopSendingResent == [][C18_Step]_vars

\* A StopSending token of a stream the connection does not track is in
\* flight while a StopSending frame with another error code is queued for
\* the same stream.
C18_Witness ==
    \E i \in Slots : \E frame \in tokens[i] :
        /\ frame.kind = "StopSending"
        /\ frame.stream_id \notin DOMAIN send_streams
        /\ \E e \in from_streams :
                /\ e.key = <<frame.stream_id, "StopSending">>
                /\ e.frame.application_error_code # frame.application_error_code

\* C19: lost() on a MaxStreamData token for stream s does what
\* maybe_send_flowc_update of the receive stream s does when that stream is
\* tracked: a MaxStreamData frame is queued only if the stream announces a
\* new window, and then carries the window the stream announces, not the
\* maximum the token captured; when the receive stream is not tracked the
\* callback changes nothing.
C19_Step ==
    \A i \in Slots : \A frame \in tokens[i] :
        frame.kind = "MaxStreamData" /\ TokenLost(i) =>
            /\ UNCHANGED <<credit_vars, need_close_frame, panicked, send_streams, indexes>>
            /\ IF frame.stream_id \in DOMAIN recv_streams
               THEN /\ maybe_send_flowc_update(frame.stream_id)
                    /\ \/ UNCHANGED <<mgr_vars, recv_streams>>
                       \/ C1_InStreams(MaxStreamData(
                              frame.stream_id,
                              recv_streams'[frame.stream_id].max_stream_data))
               ELSE UNCHANGED <<mgr_vars, recv_streams>>

C19_LostMaxStreamDataDelegated == [][C19_Step]_vars

\* A MaxStreamData token of the tracked receive stream 0 is in flight, and
\* the stream has a window to announce that is not the captured maximum.
C19_Witness ==
    \E i \in Slots : \E frame \in tokens[i] :
        /\ frame.kind = "MaxStreamData"
        /\ frame.stream_id \in DOMAIN recv_streams
        /\ ~recv_streams[frame.stream_id].size_known
        /\ recv_streams[frame.stream_id].next_max > recv_streams[frame.stream_id].max_stream_data
        /\ recv_streams[frame.stream_id].next_max # frame.maximum_stream_data

\* C20: with no emit and no lost callback, every generate with room for any
\* queued frame returns a queued frame and leaves one frame fewer queued, a
\* connection-scoped frame while there is one, else a per-stream frame while
\* there is one, else a per-direction frame; no frame is ever added, so each
\* queued frame is returned once; with nothing queued generate returns
\* nothing; and the three maps end up empty and stay empty.
C20_Roomy == \A frame \in DrainFrames : MarshalLen(frame) <= MaxRemaining

C20_Step ==
    /\ RemovedExactly(generate_result(MaxRemaining)) \/ UNCHANGED mgr_vars
    /\ GenerateStep(MaxRemaining) =>
            IF QueuedCount = 0
            THEN generate_result(MaxRemaining) = {} /\ UNCHANGED vars
            ELSE /\ generate_result(MaxRemaining) # {}
                 /\ RemovedExactly(generate_result(MaxRemaining))
                 /\ QueuedCount' = QueuedCount - 1
                 /\ \A frame \in generate_result(MaxRemaining) :
                        /\ frame.kind \in StreamKinds => from_conn = {}
                        /\ frame.kind \in StreamTypeKinds =>
                                from_conn = {} /\ from_streams = {}
                        /\ \E i \in Slots : tokens[i] = {} /\ tokens'[i] = {frame}

C20_QueueDrains ==
    /\ C20_Roomy
    /\ [][C20_Step]_vars
    /\ <>[](QueuedCount = 0 /\ generate_result(MaxRemaining) = {})

\* The queue is drained and its last frame, a per-direction one, is in a
\* packet in flight.
C20_Witness ==
    /\ QueuedCount = 0
    /\ \E i \in Slots : \E frame \in tokens[i] : frame.kind \in StreamTypeKinds

====
